---- MODULE Spec2Model ----
(***************************************************************************)
(* Model of app.py, the "Whisper Web UI" upload script: a Streamlit page   *)
(* that takes an uploaded audio file, re-encodes it when it is larger than *)
(* 25 MB, posts it to the Groq transcription endpoint and keeps the        *)
(* transcript in st.session_state.                                         *)
(*                                                                         *)
(* Units.  Python floats are replaced by exact integers:                   *)
(*   - a duration is a number of milliseconds (get_audio_info returns      *)
(*     len(audio) / 1000, and len(audio) is a whole number of ms);         *)
(*   - a target size is a number of tenths of a kilobyte, so that          *)
(*     24.9 * 1024 = 25497.6 KB is the integer 254976;                     *)
(*   - a file size is a number of bytes.                                   *)
(* Strings whose characters matter (file names, response bodies, error     *)
(* messages) are sequences of one-character strings.                       *)
(***************************************************************************)
EXTENDS Integers, Sequences, FiniteSets, TLC

VARIABLES
    uploaded_file,       \* value of st.file_uploader: None or the file picked
    transcript,          \* st.session_state.transcript
    transcription_time,  \* st.session_state.transcription_time
    calls,               \* calls made by the latest run of main(), in order
    rendered,            \* UI elements written by the latest run of main()
    run_temp_files,      \* temp files made by the latest run that still exist
    exported,            \* content of the file written by Save Transcript
    duration,            \* calculate_bitrate: first argument, in ms
    target_size,         \* calculate_bitrate: second argument, in KB/10
    evaluations,         \* calculate_bitrate: the latest two calls
    filename,            \* is_valid_audio_format: argument
    format_result,       \* is_valid_audio_format: <<>>, or <<the result>>
    network,             \* transcribe_audio_groq: what the network does
    transcription        \* transcribe_audio_groq: <<>>, or <<the outcome>>

vars == <<uploaded_file, transcript, transcription_time, calls, rendered,
          run_temp_files, exported, duration, target_size, evaluations,
          filename, format_result, network, transcription>>

session_vars == <<uploaded_file, transcript, transcription_time, calls,
                  rendered, run_temp_files, exported>>
bitrate_vars == <<duration, target_size, evaluations>>
format_vars == <<filename, format_result>>
client_vars == <<network, transcription>>

(***************************************************************************)
(* Bounds of the model.                                                    *)
(***************************************************************************)
MaxSeconds == 3        \* short durations: 1 .. MaxSeconds seconds
MaxMinutes == 3        \* long durations: 1 .. MaxMinutes minutes
MaxFileMinutes == 1    \* uploaded files last 1 .. MaxFileMinutes minutes
MaxSmallTarget == 3    \* small target sizes: 0.1 .. 0.3 KB
MaxNameLen == 5        \* longest file name tried
MaxBodyAtoms == 2      \* longest response body, in fragments
MaxElapsed == 1        \* longest request time, in clock ticks
SizeSlack == 1         \* file sizes tried: the limit +/- SizeSlack bytes

(***************************************************************************)
(* calculate_bitrate                                                       *)
(***************************************************************************)

\* target_size = 24.9 * 1024 kilobytes, in tenths of a kilobyte.
TargetSize == 254976

\* Mutant: the 1.048576 factor multiplies instead of dividing:
\*   (target_size * 8 * 1.048576) / duration
\* = (t/10) * 8 * 1.048576 * 1000 / ms = t * 524288 / (625 * ms), t in
\* tenths of a KB.  Split t to keep the product within 32 bits.
calculate_bitrate_factor_inverted(d, s) ==
    LET q == s \div 625
        r == s % 625
        scaled == q * 524288 + (r * 524288) \div 625
    IN  scaled \div d

\* Mutant: the two arguments are swapped:
\*   (duration * 8) / (1.048576 * target_size)
\* = (ms/1000) * 8 * 10 / (1.048576 * t) = ms * 625 / (8192 * t).
calculate_bitrate_swapped(d, s) == (d * 625) \div (8192 * s)

\* int((target_size * 8) / (1.048576 * duration)) with duration = d/1000 s
\* and target_size = s/10 KB:
\*   (s/10) * 8 * 1000 / (1.048576 * d) = s * 390625 / (512 * d).
\* floor(floor(x / 512) / d) = floor(x / (512 * d)); s is split into
\* 512 * q + r so that no intermediate product leaves 32 bits.  int()
\* truncates, which on the positive arguments used here is floor.
calculate_bitrate(d, s) ==
    LET q == s \div 512
        r == s % 512
        scaled == q * 390625 + (r * 390625) \div 512
    IN  scaled \div d

\* Durations (ms) and target sizes (tenths of a KB) the function is tried on.
\* On each of these pairs the double-precision quotient of the source and
\* the exact quotient above truncate to the same integer.
Durations == {1000 * k : k \in 1..MaxSeconds} \cup {60000 * k : k \in 1..MaxMinutes}
TargetSizes == (1..MaxSmallTarget) \cup {TargetSize}

InitBitrate ==
    /\ duration \in Durations
    /\ target_size \in TargetSizes
    /\ evaluations = <<>>

\* A call of calculate_bitrate at the current arguments; the record of the
\* call before it is kept.
Evaluate ==
    /\ IF evaluations = <<>> THEN TRUE
       ELSE \/ evaluations[Len(evaluations)].duration # duration
            \/ evaluations[Len(evaluations)].target_size # target_size
    /\ evaluations' =
           (IF evaluations = <<>> THEN <<>> ELSE <<evaluations[Len(evaluations)]>>)
           \o <<[duration |-> duration, target_size |-> target_size,
                 bitrate |-> calculate_bitrate(duration, target_size)]>>
    /\ UNCHANGED <<duration, target_size>>

\* The caller picks other arguments.
ChangeArguments(d, s) ==
    /\ evaluations # <<>>
    /\ <<d, s>> # <<duration, target_size>>
    /\ duration' = d
    /\ target_size' = s
    /\ UNCHANGED evaluations

(***************************************************************************)
(* is_valid_audio_format                                                   *)
(***************************************************************************)

UpperChars == <<"A", "B", "C", "D", "E", "F", "G", "H", "I", "J", "K", "L", "M",
                "N", "O", "P", "Q", "R", "S", "T", "U", "V", "W", "X", "Y", "Z">>
LowerChars == <<"a", "b", "c", "d", "e", "f", "g", "h", "i", "j", "k", "l", "m",
                "n", "o", "p", "q", "r", "s", "t", "u", "v", "w", "x", "y", "z">>

\* The lower-case letter of each upper-case letter.
LowerOf ==
    [c \in {UpperChars[i] : i \in 1..Len(UpperChars)} |->
        LowerChars[CHOOSE i \in 1..Len(UpperChars) : UpperChars[i] = c]]

\* str.lower() on one ASCII character.
LowerChar(c) == IF c \in DOMAIN LowerOf THEN LowerOf[c] ELSE c

\* str.lower()
Lower(str) == [i \in 1..Len(str) |-> LowerChar(str[i])]

\* str.rfind(c): the last index of c in str, 0 when absent (Python: -1).
RFind(str, c) ==
    IF \E i \in 1..Len(str) : str[i] = c
    THEN CHOOSE i \in 1..Len(str) :
             str[i] = c /\ \A j \in (i + 1)..Len(str) : str[j] # c
    ELSE 0

valid_formats == { <<".", "m", "p", "3">>, <<".", "m", "p", "4">>,
                   <<".", "m", "p", "e", "g">>, <<".", "m", "p", "g", "a">>,
                   <<".", "m", "4", "a">>, <<".", "w", "a", "v">>,
                   <<".", "w", "e", "b", "m">> }

\* Mutant: the extension is everything from the last dot, wherever it is.
splitext_extension_last_dot(p) ==
    LET dotIndex == RFind(p, ".")
    IN  IF dotIndex = 0 THEN <<>> ELSE SubSeq(p, dotIndex, Len(p))

\* os.path.splitext(p)[1] (posixpath, genericpath._splitext): the extension
\* starts at the last dot of the last path component, provided some
\* character other than a dot precedes it in that component.
splitext_extension(p) ==
    LET sepIndex == RFind(p, "/")
        dotIndex == RFind(p, ".")
    IN  IF dotIndex > sepIndex
           /\ \E k \in (sepIndex + 1)..(dotIndex - 1) : p[k] # "."
        THEN SubSeq(p, dotIndex, Len(p))
        ELSE <<>>

is_valid_audio_format(name) ==
    Lower(splitext_extension(name)) \in valid_formats

\* Characters file names are built from.
NameChars == {".", "/", "w", "W", "a", "v", "t"}

RECURSIVE StringsUpTo(_, _)
StringsUpTo(chars, n) ==
    IF n = 0 THEN {<<>>}
    ELSE LET shorter == StringsUpTo(chars, n - 1)
         IN  shorter \cup {Append(str, c) : str \in shorter, c \in chars}

Filenames == StringsUpTo(NameChars, MaxNameLen)

InitFormat ==
    /\ filename \in Filenames
    /\ format_result = <<>>

Validate ==
    /\ format_result = <<>>
    /\ format_result' = <<is_valid_audio_format(filename)>>
    /\ UNCHANGED filename

(***************************************************************************)
(* transcribe_audio_groq                                                   *)
(***************************************************************************)

ApiFailedPrefix ==
    <<"A", "P", "I", " ", "r", "e", "q", "u", "e", "s", "t", " ", "f",
      "a", "i", "l", "e", "d", ":", " ">>
KeyNotSetMessage ==
    <<"G", "r", "o", "q", " ", "A", "P", "I", " ", "k", "e", "y", " ",
      "n", "o", "t", " ", "s", "e", "t", ".", " ", "P", "l", "e", "a",
      "s", "e", " ", "s", "e", "t", " ", "t", "h", "e", " ", "G", "R",
      "O", "Q", "_", "A", "P", "I", "_", "K", "E", "Y", " ", "e", "n",
      "v", "i", "r", "o", "n", "m", "e", "n", "t", " ", "v", "a", "r",
      "i", "a", "b", "l", "e", ".">>
\* str() of the JSONDecodeError raised by response.json() on a bad body.
JsonErrorMessage ==
    <<"E", "x", "p", "e", "c", "t", "i", "n", "g", " ", "v", "a", "l",
      "u", "e", ":", " ", "l", "i", "n", "e", " ", "1", " ", "c", "o",
      "l", "u", "m", "n", " ", "1", " ", "(", "c", "h", "a", "r", " ",
      "0", ")">>
\* str() of the ZeroDivisionError raised by a float division by 0.0.
ZeroDivisionMessage ==
    <<"f", "l", "o", "a", "t", " ", "d", "i", "v", "i", "s", "i", "o",
      "n", " ", "b", "y", " ", "z", "e", "r", "o">>
ApiKey == <<"a", "p", "i", "_", "k", "e", "y">>

\* needle in hay
Contains(hay, needle) ==
    \E i \in 0..(Len(hay) - Len(needle)) :
        SubSeq(hay, i + 1, i + Len(needle)) = needle

\* What a call returns or raises.
Returned(text, elapsed) ==
    [raised |-> FALSE, message |-> <<>>, text |-> text, elapsed |-> elapsed]
Raised(message) ==
    [raised |-> TRUE, message |-> message, text |-> "", elapsed |-> 0]
NoOutcome == Returned("", 0)

\* Response bodies and exception texts: up to MaxBodyAtoms fragments.
BodyAtoms == { <<"a", "p", "i">>, <<"_", "K", "E", "Y">>, <<"x">> }

RECURSIVE ConcatsUpTo(_, _)
ConcatsUpTo(atoms, n) ==
    IF n = 0 THEN {<<>>}
    ELSE LET shorter == ConcatsUpTo(atoms, n - 1)
         IN  shorter \cup {str \o a : str \in shorter, a \in atoms}

Bodies == ConcatsUpTo(BodyAtoms, MaxBodyAtoms)
Texts == {"", "hello", "world"}

\* What the network does with the POST: requests.post raises an exception
\* with some text, or a response comes back.  response.json() is the parsed
\* body: not JSON, or an object with or without a 'text' member.
NoJson == [valid |-> FALSE, has_text |-> FALSE, text |-> ""]
Jsons == {NoJson}
         \cup {[valid |-> TRUE, has_text |-> FALSE, text |-> ""]}
         \cup {[valid |-> TRUE, has_text |-> TRUE, text |-> t] : t \in Texts}
NoEnv == [kind |-> "none", status_code |-> 0, text |-> <<>>, json |-> NoJson,
          elapsed |-> 0]
EnvsOver(bodies) ==
    {[kind |-> "exception", status_code |-> 0, text |-> b, json |-> NoJson,
      elapsed |-> 0] : b \in bodies}
    \cup {[kind |-> "response", status_code |-> 200, text |-> <<>>, json |-> j,
           elapsed |-> e] : j \in Jsons, e \in 0..MaxElapsed}
    \cup {[kind |-> "response", status_code |-> s, text |-> b, json |-> NoJson,
           elapsed |-> 0] : s \in {400, 401, 500}, b \in bodies}
Envs == EnvsOver(Bodies)
\* The page session is run against three of the bodies.
SessionEnvs == EnvsOver({<<>>, <<"x">>, <<"a", "p", "i", "_", "K", "E", "Y">>})

\* Mutant: the API error does not carry response.text.
transcribe_request_without_body(env) ==
    IF env.kind = "exception" THEN Raised(env.text)
    ELSE IF env.status_code # 200 THEN Raised(ApiFailedPrefix)
    ELSE IF ~env.json.valid THEN Raised(JsonErrorMessage)
    ELSE Returned(IF env.json.has_text THEN env.json.text ELSE "", env.elapsed)

\* The body of the try block.
transcribe_request(env) ==
    IF env.kind = "exception" THEN Raised(env.text)
    ELSE IF env.status_code # 200 THEN Raised(ApiFailedPrefix \o env.text)
    ELSE IF ~env.json.valid THEN Raised(JsonErrorMessage)
    ELSE Returned(IF env.json.has_text THEN env.json.text ELSE "", env.elapsed)

\* The try block with its except clause.
transcribe_audio_groq(env) ==
    LET attempt == transcribe_request(env)
    IN  IF attempt.raised /\ Contains(Lower(attempt.message), ApiKey)
        THEN Raised(KeyNotSetMessage)
        ELSE attempt

InitClient ==
    /\ network \in Envs
    /\ transcription = <<>>

Transcribe ==
    /\ transcription = <<>>
    /\ transcription' = <<transcribe_audio_groq(network)>>
    /\ UNCHANGED network

(***************************************************************************)
(* main: the page script, run once per user interaction                    *)
(***************************************************************************)

\* "file_size > 25" with file_size = os.path.getsize(...) / (1024 * 1024).
LimitBytes == 25 * 1024 * 1024

\* uploaded_file is None
NoFile == [name |-> "", size |-> 0, duration |-> 0]

\* Files the user can pick: a name, a size in bytes, and the duration in ms
\* that the decoder reports for it (0 for a file with no audio frames).
FileDurations == {0} \cup {60000 * k : k \in 1..MaxFileMinutes}
Files == {[name |-> n, size |-> LimitBytes + k, duration |-> d] :
             n \in {"a.mp3", "b.wav"}, k \in (0 - SizeSlack)..SizeSlack,
             d \in FileDurations}

\* What the codec library does in this run.
Codecs == {"ok", "decode_error", "encode_error"}

Call(fn, file, value, env, outcome) ==
    [fn |-> fn, file |-> file, value |-> value, env |-> env, outcome |-> outcome]

El(kind) == [kind |-> kind, detail |-> <<>>, value |-> ""]
ErrorEl(kind, message) == [kind |-> kind, detail |-> message, value |-> ""]
TextArea(text) == [kind |-> "text_area", detail |-> <<>>, value |-> text]

\* Mutant: the comparison admits the limit itself.
exceeds_limit_inclusive(size) == size >= LimitBytes

\* file_size > 25
exceeds_limit(size) == size > LimitBytes

\* input_file = compressed_file / input_file = temp_input.name
select_input_file(size) ==
    IF exceeds_limit(size) THEN "compressed" ELSE "temp_input"

\* Mutant: a failed transcription clears the stored result.
store_result_cleared_on_failure(outcome, old) ==
    IF outcome.raised
    THEN [transcript |-> "", transcription_time |-> 0]
    ELSE [transcript |-> outcome.text, transcription_time |-> outcome.elapsed]

\* The tuple assignment inside try: both targets on return, neither on raise.
store_result(outcome, old) ==
    IF outcome.raised
    THEN old
    ELSE [transcript |-> outcome.text, transcription_time |-> outcome.elapsed]

\* Mutant: no cleanup after a transcription that raised.
cleanup_skipped_on_failure(size, outcome) ==
    IF outcome.raised THEN <<>>
    ELSE <<"temp_input">> \o (IF exceeds_limit(size) THEN <<"compressed">> ELSE <<>>)

\* The files unlinked after the try statement, in order.
cleanup(size, outcome) ==
    <<"temp_input">> \o (IF exceeds_limit(size) THEN <<"compressed">> ELSE <<>>)

Range(seq) == {seq[i] : i \in 1..Len(seq)}

\* bitrate = calculate_bitrate(duration, target_size), target_size = 24.9 * 1024
compression_bitrate(d) == calculate_bitrate(d, TargetSize)

\* The "Process Audio" branch for file f, from the temp copy to the cleanup.
\* The result holds the calls made, the elements written, the temp files
\* left behind, the session state afterwards, and whether an exception
\* left main().
process_audio(f, codec, env, old) ==
    LET over == exceeds_limit(f.size)
        measured == <<Call("os.path.getsize", "temp_input", f.size, NoEnv, NoOutcome)>>
        shown == <<El("write_input_file_size")>>
        info_ok == Call("get_audio_info", "temp_input", f.duration, NoEnv, NoOutcome)
        b == compression_bitrate(f.duration)
        bitrate_ok == Call("calculate_bitrate", "", b, NoEnv, NoOutcome)
        compressed == <<info_ok, bitrate_ok,
                        Call("compress_audio", "temp_input", b, NoEnv, NoOutcome)>>
        input_file == select_input_file(f.size)
        outcome == transcribe_audio_groq(env)
        stored == store_result(outcome, old)
        unlinked == cleanup(f.size, outcome)
        Abort(cs, message, left) ==
            [calls |-> measured \o cs,
             elements |-> shown \o <<El("write_compressing"),
                                     ErrorEl("exception", message)>>,
             temp |-> left, session |-> old, aborted |-> TRUE]
    IN  IF over /\ codec = "decode_error"
        THEN Abort(<<Call("get_audio_info", "temp_input", 0, NoEnv, Raised(<<>>))>>,
                   <<>>, {"temp_input"})
        ELSE IF over /\ f.duration = 0
        THEN Abort(<<info_ok,
                     Call("calculate_bitrate", "", 0, NoEnv,
                          Raised(ZeroDivisionMessage))>>,
                   ZeroDivisionMessage, {"temp_input"})
        ELSE IF over /\ codec = "encode_error"
        THEN Abort(<<info_ok, bitrate_ok,
                     Call("compress_audio", "temp_input", b, NoEnv, Raised(<<>>))>>,
                   <<>>, {"temp_input", "compressed"})
        ELSE
            [calls |->
                 measured
                 \o (IF over THEN compressed ELSE <<>>)
                 \o <<Call("transcribe_audio_groq", input_file, 0, env, outcome)>>
                 \o [i \in 1..Len(unlinked) |->
                        Call("os.unlink", unlinked[i], 0, NoEnv, NoOutcome)],
             elements |->
                 shown
                 \o (IF over
                     THEN <<El("write_compressing"), El("write_compression_complete")>>
                     ELSE <<El("write_no_compression_needed")>>)
                 \o <<El("write_transcribing")>>
                 \o (IF outcome.raised
                     THEN <<ErrorEl("error_transcription_failed", outcome.message)>>
                     ELSE <<El("write_transcription_complete")>>),
             temp |-> ({"temp_input"} \cup (IF over THEN {"compressed"} ELSE {}))
                      \ Range(unlinked),
             session |-> stored, aborted |-> FALSE]

\* "Display transcript and controls": shown when the stored transcript is
\* not empty; copy and save are what the two buttons added in this run.
display(text, copy, save) ==
    IF text # ""
    THEN <<El("subheader_transcript"), TextArea(text)>> \o copy
         \o <<El("subheader_save"), El("text_input")>> \o save
    ELSE <<>>

\* A run of main() in which no button is pressed.
page(f, text) ==
    IF f # NoFile THEN <<El("audio")>> \o display(text, <<>>, <<>>) ELSE <<>>

InitSession ==
    /\ uploaded_file = NoFile
    /\ transcript = ""
    /\ transcription_time = 0
    /\ calls = <<>>
    /\ rendered = <<>>
    /\ run_temp_files = {}
    /\ exported = <<>>

\* The user picks a file in the uploader; the script reruns.
UploadFile(f) ==
    /\ f # uploaded_file
    /\ uploaded_file' = f
    /\ calls' = <<>>
    /\ rendered' = page(f, transcript)
    /\ UNCHANGED <<transcript, transcription_time, run_temp_files, exported>>

\* The user removes the file from the uploader; the script reruns.
RemoveFile ==
    /\ uploaded_file # NoFile
    /\ uploaded_file' = NoFile
    /\ calls' = <<>>
    /\ rendered' = page(NoFile, transcript)
    /\ UNCHANGED <<transcript, transcription_time, run_temp_files, exported>>

\* The user presses "Process Audio".
ProcessAudio(codec, env) ==
    /\ uploaded_file # NoFile
    /\ exceeds_limit(uploaded_file.size) \/ codec = "ok"
    /\ \E run \in {process_audio(uploaded_file, codec, env,
                                [transcript |-> transcript,
                                 transcription_time |-> transcription_time])} :
           /\ calls' = run.calls
           /\ transcript' = run.session.transcript
           /\ transcription_time' = run.session.transcription_time
           /\ run_temp_files' = run.temp
           /\ rendered' =
                  <<El("audio")>> \o run.elements
                  \o (IF run.aborted THEN <<>>
                      ELSE display(run.session.transcript, <<>>, <<>>))
    /\ UNCHANGED <<uploaded_file, exported>>

\* The user presses "Copy to Clipboard"; pyperclip.copy works or raises.
CopyToClipboard(ok) ==
    /\ uploaded_file # NoFile
    /\ transcript # ""
    /\ calls' = <<Call("pyperclip.copy", "", 0, NoEnv,
                       IF ok THEN NoOutcome ELSE Raised(<<>>))>>
    /\ rendered' = <<El("audio")>>
                   \o display(transcript,
                              <<El(IF ok THEN "success_copied" ELSE "error_copy_failed")>>,
                              <<>>)
    /\ UNCHANGED <<uploaded_file, transcript, transcription_time,
                   run_temp_files, exported>>

\* The user presses "Save Transcript" with or without a file name typed;
\* open() or write() works or raises.
SaveTranscript(named, ok) ==
    /\ uploaded_file # NoFile
    /\ transcript # ""
    /\ calls' = IF named
                THEN <<Call("save_transcript_to_file", "output_filename", 0, NoEnv,
                            Returned(IF ok THEN "True" ELSE "False", 0))>>
                ELSE <<>>
    /\ exported' = IF named /\ ok THEN <<transcript>> ELSE exported
    /\ rendered' = <<El("audio")>>
                   \o display(transcript, <<>>,
                              IF ~named THEN <<El("warning_enter_filename")>>
                              ELSE IF ok THEN <<El("success_saved")>>
                              ELSE <<El("error_save_failed")>>)
    /\ UNCHANGED <<uploaded_file, transcript, transcription_time, run_temp_files>>

(***************************************************************************)
(* Specifications                                                          *)
(***************************************************************************)

\* The page session; the two pure functions are not exercised.
Init ==
    /\ InitSession
    /\ duration = 1000
    /\ target_size = TargetSize
    /\ evaluations = <<>>
    /\ filename = <<>>
    /\ format_result = <<>>
    /\ network = NoEnv
    /\ transcription = <<>>

others == <<bitrate_vars, format_vars, client_vars>>

Next ==
    \/ \E f \in Files : UploadFile(f) /\ UNCHANGED others
    \/ RemoveFile /\ UNCHANGED others
    \/ \E codec \in Codecs, env \in SessionEnvs :
           ProcessAudio(codec, env) /\ UNCHANGED others
    \/ \E ok \in BOOLEAN : CopyToClipboard(ok) /\ UNCHANGED others
    \/ \E named \in BOOLEAN, ok \in BOOLEAN :
           SaveTranscript(named, ok) /\ UNCHANGED others

Spec == Init /\ [][Next]_vars

\* calculate_bitrate called on arguments from Durations x TargetSizes.
BitrateInit ==
    /\ InitSession
    /\ InitBitrate
    /\ filename = <<>>
    /\ format_result = <<>>
    /\ network = NoEnv
    /\ transcription = <<>>

BitrateNext ==
    \/ Evaluate /\ UNCHANGED <<session_vars, format_vars, client_vars>>
    \/ \E d \in Durations, s \in TargetSizes :
           ChangeArguments(d, s) /\ UNCHANGED <<session_vars, format_vars, client_vars>>

BitrateSpec == BitrateInit /\ [][BitrateNext]_vars

\* is_valid_audio_format called on a name from Filenames.
FormatInit ==
    /\ InitSession
    /\ InitFormat
    /\ duration = 1000
    /\ target_size = TargetSize
    /\ evaluations = <<>>
    /\ network = NoEnv
    /\ transcription = <<>>

FormatNext == Validate /\ UNCHANGED <<session_vars, bitrate_vars, client_vars>>

FormatSpec == FormatInit /\ [][FormatNext]_vars

\* transcribe_audio_groq called against each behaviour of the network in Envs.
ClientInit ==
    /\ InitSession
    /\ InitClient
    /\ duration = 1000
    /\ target_size = TargetSize
    /\ evaluations = <<>>
    /\ filename = <<>>
    /\ format_result = <<>>

ClientNext == Transcribe /\ UNCHANGED <<session_vars, bitrate_vars, format_vars>>

ClientSpec == ClientInit /\ [][ClientNext]_vars

(***************************************************************************)
(* Properties                                                              *)
(***************************************************************************)

CallsOf(fn) == {i \in 1..Len(calls) : calls[i].fn = fn}

\* The latest run of main() went through the "Process Audio" branch.
ProcessRan == calls # <<>> /\ calls[1].fn = "os.path.getsize"

\* transcribe_audio_groq was called in the latest run and raised.
TranscriptionFailed ==
    \E i \in CallsOf("transcribe_audio_groq") : calls[i].outcome.raised

\* compress_audio returned in the latest run.
Compressed ==
    \E i \in CallsOf("compress_audio") : ~calls[i].outcome.raised

\* C1: when the uploaded file is over 25 MB and its duration d is > 0, and
\* the decoder reads it, the handler compresses at calculate_bitrate(d,
\* 24.9 * 1024), and bitrate (kbit/s) x duration is at most 25 MB.  With the
\* duration in ms, bitrate x duration is a number of bits.
C1_CompressedFitsLimit ==
    ProcessRan =>
        /\ \A i \in CallsOf("compress_audio") :
              \E j \in CallsOf("get_audio_info") :
                  /\ j < i
                  /\ calls[i].value =
                         calculate_bitrate(calls[j].value, TargetSize)
                  /\ calls[i].value * calls[j].value <= 8 * 25 * 1024 * 1024
        /\ \A j \in CallsOf("get_audio_info") :
              (~calls[j].outcome.raised /\ calls[j].value > 0)
                  => CallsOf("compress_audio") # {}
        /\ (calls[1].value > 25 * 1024 * 1024)
              => CallsOf("get_audio_info") # {}

C1_Witness ==
    /\ ProcessRan
    /\ calls[1].value > 25 * 1024 * 1024
    /\ Compressed
    /\ \E i \in CallsOf("compress_audio") : calls[i].value > 0
    /\ \E i \in CallsOf("transcribe_audio_groq") : calls[i].file = "compressed"

\* C2: the file given to transcribe_audio_groq is the compressed one exactly
\* when the measured size is over 25 MB; otherwise it is the temp copy of
\* the upload, and get_audio_info, calculate_bitrate and compress_audio are
\* not called; the transcription call comes after the size measurement and,
\* when over the limit, after the compression.
C2_CompressedIffOverLimit ==
    ProcessRan =>
        LET over == calls[1].value > 25 * 1024 * 1024
        IN  /\ calls[1].value = uploaded_file.size
            /\ \A i \in CallsOf("transcribe_audio_groq") :
                  /\ i > 1
                  /\ calls[i].file = (IF over THEN "compressed" ELSE "temp_input")
                  /\ over => \E j \in CallsOf("compress_audio") :
                                 j < i /\ ~calls[j].outcome.raised
            /\ ~over =>
                  /\ CallsOf("get_audio_info") = {}
                  /\ CallsOf("calculate_bitrate") = {}
                  /\ CallsOf("compress_audio") = {}
                  /\ CallsOf("transcribe_audio_groq") # {}

C2_Witness ==
    /\ ProcessRan
    /\ calls[1].value = 25 * 1024 * 1024
    /\ \E i \in CallsOf("transcribe_audio_groq") : calls[i].file = "temp_input"

\* C3: for duration > 0 and target size > 0, calculate_bitrate returns an
\* integer strictly greater than 0.
C3_BitratePositive ==
    \A i \in 1..Len(evaluations) :
        (evaluations[i].duration > 0 /\ evaluations[i].target_size > 0)
            => evaluations[i].bitrate > 0

\* C4: calculate_bitrate does not increase when the duration grows and the
\* target size stays, and does not decrease when the target size grows and
\* the duration stays.
C4_BitrateMonotone ==
    Len(evaluations) = 2 =>
        LET a == evaluations[1]
            b == evaluations[2]
        IN  /\ (a.target_size = b.target_size /\ a.duration <= b.duration)
                  => a.bitrate >= b.bitrate
            /\ (a.duration = b.duration /\ a.target_size <= b.target_size)
                  => a.bitrate <= b.bitrate

C4_Witness ==
    /\ Len(evaluations) = 2
    /\ evaluations[1].target_size = evaluations[2].target_size
    /\ evaluations[1].duration < evaluations[2].duration
    /\ evaluations[1].bitrate > evaluations[2].bitrate

\* C5, as stated: calculate_bitrate(60, 24.9 * 1024) returns 3255.
C5_Returns3255 ==
    \A i \in 1..Len(evaluations) :
        (evaluations[i].duration = 60 * 1000 /\ evaluations[i].target_size = TargetSize)
            => evaluations[i].bitrate = 3255

\* C5, amended: calculate_bitrate(60, 24.9 * 1024) returns 3242, which is
\* floor((24.9 * 1024 * 8) / (1.048576 * 60)).
C5_Returns3242 ==
    \A i \in 1..Len(evaluations) :
        (evaluations[i].duration = 60 * 1000 /\ evaluations[i].target_size = TargetSize)
            => evaluations[i].bitrate = 3242

C5_Witness ==
    \E i \in 1..Len(evaluations) :
        /\ evaluations[i].duration = 60 * 1000
        /\ evaluations[i].target_size = TargetSize
        /\ evaluations[i].bitrate = 3242

\* The text of a name from its last dot on; empty when it has no dot.
FromLastDot(name) ==
    IF \E k \in 1..Len(name) : name[k] = "."
    THEN SubSeq(name, CHOOSE k \in 1..Len(name) :
                          name[k] = "." /\ \A m \in (k + 1)..Len(name) : name[m] # ".",
                Len(name))
    ELSE <<>>

\* C6, as stated: is_valid_audio_format(filename) is true exactly when the
\* text of the name from its last dot on, lower-cased, is one of the seven
\* extensions; so ".WAV" is accepted.
C6_AcceptsByLastDot ==
    format_result # <<>> =>
        format_result[1] = (Lower(FromLastDot(filename)) \in valid_formats)

\* The name ends in one of the seven extensions, whatever the case, and in
\* the same path component a character other than a dot comes before it.
AcceptedName(name) ==
    \E k \in 1..Len(name) :
        /\ Lower(SubSeq(name, k, Len(name))) \in valid_formats
        /\ \E j \in 1..(k - 1) :
              /\ name[j] \notin {".", "/"}
              /\ \A m \in j..(k - 1) : name[m] # "/"

\* C6, amended: is_valid_audio_format(filename) is true exactly when the
\* name ends in one of the seven extensions, compared case-insensitively,
\* and its last path component has a character other than a dot before that
\* extension; it is false for every other name, so "a.WAV" is accepted and
\* ".WAV", ".txt" and names without an extension are rejected.
C6_AcceptsExtensionAfterStem ==
    format_result # <<>> => format_result[1] = AcceptedName(filename)

C6_Witness ==
    /\ format_result = <<TRUE>>
    /\ \E k \in 1..Len(filename) : filename[k] = "W"

\* C7, as stated: on a status other than 200, whatever the response body,
\* transcribe_audio_groq raises an error whose message contains the body.
C7_ErrorCarriesBody ==
    (transcription # <<>> /\ network.kind = "response" /\ network.status_code # 200)
        => /\ transcription[1].raised
           /\ Contains(transcription[1].message, network.text)

\* C7, amended: on a status other than 200 transcribe_audio_groq raises; the
\* message is "API request failed: " followed by the response body, unless
\* the body contains "api_key" in any letter case, and then the message is
\* the fixed "Groq API key not set..." text instead.
C7_ErrorCarriesBodyUnlessApiKey ==
    (transcription # <<>> /\ network.kind = "response" /\ network.status_code # 200)
        => /\ transcription[1].raised
           /\ IF Contains(Lower(network.text), ApiKey)
              THEN transcription[1].message = KeyNotSetMessage
              ELSE /\ transcription[1].message = ApiFailedPrefix \o network.text
                   /\ Contains(transcription[1].message, network.text)

C7_Witness ==
    /\ transcription # <<>>
    /\ network.kind = "response"
    /\ network.status_code = 401
    /\ network.text # <<>>
    /\ transcription[1].raised
    /\ transcription[1].message = ApiFailedPrefix \o network.text

\* C8: a run whose transcription call raised shows an error and leaves
\* transcript and transcription_time as they were; a step changes either of
\* them only by a transcription that returned, which sets both.
C8_FailureKeepsTranscript ==
    [][ /\ TranscriptionFailed' =>
              /\ transcript' = transcript
              /\ transcription_time' = transcription_time
              /\ \E k \in 1..Len(rendered') :
                     rendered'[k].kind = "error_transcription_failed"
        /\ (transcript' # transcript \/ transcription_time' # transcription_time) =>
              \E i \in CallsOf("transcribe_audio_groq")' :
                  /\ ~calls'[i].outcome.raised
                  /\ transcript' = calls'[i].outcome.text
                  /\ transcription_time' = calls'[i].outcome.elapsed
      ]_vars

C8_Witness ==
    /\ TranscriptionFailed
    /\ transcript # ""
    /\ transcription_time # 0
    /\ \E k \in 1..Len(rendered) : rendered[k].kind = "error_transcription_failed"

\* C9: when a different file is uploaded after a transcript has been stored,
\* the stored transcript is cleared.
C9_NewInputClearsTranscript ==
    [][ (uploaded_file' # uploaded_file /\ uploaded_file' # NoFile /\ transcript # "")
            => transcript' = "" ]_vars

\* C10, as stated: after a compression, when the transcription call raises,
\* the compressed temp file is not unlinked and still exists at the end of
\* the handler.
C10_CompressedFileLeaked ==
    (Compressed /\ TranscriptionFailed) =>
        /\ "compressed" \in run_temp_files
        /\ \A i \in CallsOf("os.unlink") : calls[i].file # "compressed"

\* C10, amended: after a compression, when the transcription call raises,
\* the handler reports the error and then unlinks both temp files, so the
\* compressed temp file no longer exists at the end of the handler.
C10_CompressedFileDeleted ==
    (Compressed /\ TranscriptionFailed) =>
        /\ "compressed" \notin run_temp_files
        /\ \E i \in CallsOf("os.unlink") :
              /\ calls[i].file = "compressed"
              /\ \A j \in CallsOf("transcribe_audio_groq") : j < i

C10_Witness ==
    /\ Compressed
    /\ TranscriptionFailed
    /\ run_temp_files = {}

====
